---- MODULE Spec2Model ----
(***************************************************************************)
(* Model of the structural validation engine of base-backend               *)
(* (src/src/validation/index.ts, with the staged interfaces of steps.ts).  *)
(*                                                                         *)
(* Strings are sequences of one-character strings, so that trim, split,    *)
(* length and RegExp.test are computed as the code computes them.          *)
(* JavaScript values are records tagged with their kind.                    *)
(***************************************************************************)
EXTENDS Integers, Sequences, FiniteSets, TLC

(***************************************************************************)
(* Bounds of the model.                                                    *)
(***************************************************************************)
\* providers (String/Integer/Array step objects) a builder run may allocate
MaxProviders == 2
\* checkers a builder run may push on the checker list
MaxCheckers == 2
\* largest length / value bound handed to withMin... / withMax...
MaxBound == 1
\* bounds and regular expressions a schema may carry, over all its providers
MaxConstraints == 1
\* deepest array nesting of the schemas validated against nested inputs
MaxNesting == 2

\* an optional number (a bound that is `undefined` until it is set)
NoBound == [set |-> FALSE, v |-> 0]
Bound(n) == [set |-> TRUE, v |-> n]

(***************************************************************************)
(* Strings.                                                                *)
(***************************************************************************)
IsSpace(c) == c = " "

RECURSIVE TrimStart(_)
TrimStart(s) ==
    IF s # <<>> /\ IsSpace(Head(s)) THEN TrimStart(Tail(s)) ELSE s

RECURSIVE TrimEnd(_)
TrimEnd(s) ==
    IF s # <<>> /\ IsSpace(s[Len(s)]) THEN TrimEnd(SubSeq(s, 1, Len(s) - 1)) ELSE s

\* String.prototype.trim
Trim(s) == TrimEnd(TrimStart(s))

\* String.prototype.split('.'): acc is the segment being read
RECURSIVE SplitFrom(_, _)
SplitFrom(s, acc) ==
    IF s = <<>> THEN <<acc>>
    ELSE IF Head(s) = "." THEN <<acc>> \o SplitFrom(Tail(s), <<>>)
    ELSE SplitFrom(Tail(s), Append(acc, Head(s)))

Split(s) == SplitFrom(s, <<>>)

\* decimal rendering of an array index, as in `${name}.${i}`
Digit(i) == <<"0", "1", "2", "3", "4", "5", "6", "7", "8", "9">>[i + 1]

(***************************************************************************)
(* parsePath: the path is trimmed as a whole, split on dots, and rejected  *)
(* when it is empty or a part is blank; the parts are returned as split.   *)
(***************************************************************************)
PathIsEmpty(path) == Len(Trim(path)) = 0

PathHasEmptyPart(path) ==
    \E i \in 1..Len(Split(Trim(path))) : Len(Trim(Split(Trim(path))[i])) = 0

\* parsePath that rejects the empty path only
PathThrowsIfEmpty(path) == PathIsEmpty(path)

PathThrows(path) == PathIsEmpty(path) \/ PathHasEmptyPart(path)

parsePath(path) == Split(Trim(path))

(***************************************************************************)
(* JavaScript values.                                                      *)
(***************************************************************************)
\* every value carries the payload fields of all kinds, the unused ones empty:
\* s the characters of a string, n the number, e the elements of an array,
\* f the own members of an object (a function from keys to values)
Val(k, s, n, e, f) == [k |-> k, s |-> s, n |-> n, e |-> e, f |-> f]
Undefined == Val("undefined", <<>>, <<0, 0, 0>>, <<>>, <<>>)
Null      == Val("null", <<>>, <<0, 0, 0>>, <<>>, <<>>)
Str(s)    == Val("string", s, <<0, 0, 0>>, <<>>, <<>>)
\* the number (n + f/10) / 10^e, n an integer and f a digit; e is 0, or at
\* least 7 with n in 1..9: the numbers below 1e-6, which JavaScript writes
\* in exponent notation
Exp(n, f, e) == Val("number", <<>>, <<n, f, e>>, <<>>, <<>>)
\* the number n + f/10; f # 0 is a fraction
Frac(n, f) == Exp(n, f, 0)
Num(n)    == Frac(n, 0)
Arr(es)   == Val("array", <<>>, <<0, 0, 0>>, es, <<>>)
Obj(f)    == Val("object", <<>>, <<0, 0, 0>>, <<>>, f)
EmptyObj  == Obj(<<>>)

\* the typeof operator
TypeOf(x) ==
    CASE x.k = "undefined" -> "undefined"
      [] x.k = "string"    -> "string"
      [] x.k = "number"    -> "number"
      [] x.k = "boolean"   -> "boolean"
      [] OTHER             -> "object"

\* Outcome of an expression that can throw: a value or a thrown error.
Ok(x)     == [thrown |-> FALSE, val |-> x]
Throw(e)  == [thrown |-> TRUE, val |-> e]

\* from[key] for a from with typeof from === 'object':
\* null throws a TypeError, an object yields its own member or undefined,
\* an array has none of the (non-numeric) keys of the model.
GetMember(from, key) ==
    CASE from.k = "null" -> Throw([type |-> "TypeError", code |-> "member_of_null", name |-> key, text |-> "Cannot read property"])
      [] from.k = "object" ->
            IF key \in DOMAIN from.f THEN Ok(from.f[key]) ELSE Ok(Undefined)
      [] OTHER -> Ok(Undefined)

\* extractValue with the typeof test of its return statement dropped: the
\* last member is read from whatever the walk ended on
RECURSIVE ExtractFromUnchecked(_, _, _)
ExtractFromUnchecked(from, path, i) ==
    IF i < Len(path) /\ TypeOf(from) = "object"
    THEN LET m == GetMember(from, path[i])
         IN  IF m.thrown THEN m ELSE ExtractFromUnchecked(m.val, path, i + 1)
    ELSE IF i = Len(path)
         THEN IF from.k \in {"undefined", "null"}
              THEN Throw([type |-> "TypeError", code |-> "member_of_undefined",
                          name |-> path[i], text |-> "Cannot read property"])
              ELSE GetMember(from, path[i])
         ELSE Ok(Undefined)

\* extractValue(from, path): the while loop from index i on, then the return
RECURSIVE ExtractFrom(_, _, _)
ExtractFrom(from, path, i) ==
    IF i < Len(path) /\ TypeOf(from) = "object"
    THEN LET m == GetMember(from, path[i])
         IN  IF m.thrown THEN m ELSE ExtractFrom(m.val, path, i + 1)
    ELSE IF i = Len(path) /\ TypeOf(from) = "object"
         THEN GetMember(from, path[i])
         ELSE Ok(Undefined)

extractValue(from, path) == ExtractFrom(from, path, 1)

(***************************************************************************)
(* RegExp objects.  A regular expression of the model is a literal `src`   *)
(* with optional ^ and $ anchors and an optional g flag; lastIndex is the  *)
(* mutable field of the RegExp object.                                     *)
(***************************************************************************)
\* does re match s with the match starting at (0-based) index i
MatchAt(re, s, i) ==
    /\ i + Len(re.src) <= Len(s)
    /\ re.start => i = 0
    /\ re.end => i + Len(re.src) = Len(s)
    /\ SubSeq(s, i + 1, i + Len(re.src)) = re.src

\* RegExp.prototype.test(s) on a RegExp whose lastIndex is li: the search
\* starts at lastIndex for a global expression and at 0 otherwise; a global
\* expression stores the end of the match, or 0 after a failure.
RegExpTest(re, li, s) ==
    LET from == IF re.global THEN li ELSE 0
        hits == {i \in from..Len(s) : MatchAt(re, s, i)}
        at   == CHOOSE i \in hits : \A j \in hits : i <= j
    IN  IF hits = {}
        THEN [matched |-> FALSE, lastIndex |-> IF re.global THEN 0 ELSE li]
        ELSE [matched |-> TRUE,
              lastIndex |-> IF re.global THEN at + Len(re.src) ELSE li]

(***************************************************************************)
(* Errors.  An Error is modelled by the parts of its message: the code of  *)
(* the throw site, the field name the message interpolates (empty when the *)
(* message has no name in it) and the constraint wording of the message.   *)
(* A TypeError is what the runtime throws for a member access on null.     *)
(***************************************************************************)
NoErr == [type |-> "none", code |-> "none", name |-> <<>>, text |-> ""]
Err(code, name, text) == [type |-> "Error", code |-> code, name |-> name, text |-> text]

(***************************************************************************)
(* Value checkers.  `ps` is the heap of provider objects, `li` the         *)
(* lastIndex of every RegExp object.  A value checker returns the error it *)
(* throws (NoErr when it returns normally), the lastIndex fields it leaves  *)
(* behind and the display names it was invoked on, in order.               *)
(***************************************************************************)
Pass(li, visited) == [err |-> NoErr, li |-> li, visited |-> visited]
Fail(e, li, visited) == [err |-> e, li |-> li, visited |-> visited]

\* the String check without its minLength test
StringCheckNoMin(this, re, value, name, li) ==
    IF TypeOf(value) # "string"
    THEN Fail(Err("string_type", name, "to be a string"), li, <<name>>)
    ELSE
    LET trimmed == Trim(value.s) IN
    IF this.max.set /\ Len(trimmed) > this.max.v
    THEN Fail(Err("string_max", name, "to be shorter than or equal to"), li, <<name>>)
    ELSE IF this.regex # 0
    THEN LET t == RegExpTest(re[this.regex], li[this.regex], trimmed)
             li2 == [li EXCEPT ![this.regex] = t.lastIndex]
         IN  IF t.matched THEN Pass(li2, <<name>>)
             ELSE Fail(Err("string_regex", name, "to match"), li2, <<name>>)
    ELSE Pass(li, <<name>>)

\* the String check that tests the regular expression before the lengths
StringCheckRegexFirst(this, re, value, name, li) ==
    IF TypeOf(value) # "string"
    THEN Fail(Err("string_type", name, "to be a string"), li, <<name>>)
    ELSE
    LET trimmed == Trim(value.s)
        t == IF this.regex # 0
             THEN RegExpTest(re[this.regex], li[this.regex], trimmed)
             ELSE [matched |-> TRUE, lastIndex |-> 0]
        li2 == IF this.regex # 0 THEN [li EXCEPT ![this.regex] = t.lastIndex] ELSE li
    IN
    IF ~t.matched
    THEN Fail(Err("string_regex", name, "to match"), li2, <<name>>)
    ELSE IF this.min.set /\ Len(trimmed) < this.min.v
    THEN Fail(Err("string_min", name, "to be longer than or equal to"), li2, <<name>>)
    ELSE IF this.max.set /\ Len(trimmed) > this.max.v
    THEN Fail(Err("string_max", name, "to be shorter than or equal to"), li2, <<name>>)
    ELSE Pass(li2, <<name>>)

\* the closure returned by StringValidator.provide, for the provider `this`
StringCheck(this, re, value, name, li) ==
    IF TypeOf(value) # "string"
    THEN Fail(Err("string_type", name, "to be a string"), li, <<name>>)
    ELSE
    LET trimmed == Trim(value.s) IN
    IF this.min.set /\ Len(trimmed) < this.min.v
    THEN Fail(Err("string_min", name, "to be longer than or equal to"), li, <<name>>)
    ELSE IF this.max.set /\ Len(trimmed) > this.max.v
    THEN Fail(Err("string_max", name, "to be shorter than or equal to"), li, <<name>>)
    ELSE IF this.regex # 0
    THEN LET t == RegExpTest(re[this.regex], li[this.regex], trimmed)
             li2 == [li EXCEPT ![this.regex] = t.lastIndex]
         IN  IF t.matched THEN Pass(li2, <<name>>)
             ELSE Fail(Err("string_regex", name, "to match"), li2, <<name>>)
    ELSE Pass(li, <<name>>)

\* value < bound and value > bound for a number <<n, f, e>> and an integer
\* bound; a number with e > 0 lies strictly between 0 and 1
NumLess(v, bound) == IF v[3] = 0 THEN v[1] < bound ELSE bound >= 1
NumGreater(v, bound) ==
    IF v[3] = 0 THEN v[1] > bound \/ (v[1] = bound /\ v[2] > 0) ELSE bound <= 0

\* the decimal digits of a natural number
RECURSIVE Digits(_)
Digits(n) == IF n < 10 THEN <<Digit(n)>> ELSE Digits(n \div 10) \o <<Digit(n % 10)>>

\* `${value}` for a number: decimal notation, the fraction after a point,
\* and exponent notation (1e-7, 1.5e-7) for the numbers below 1e-6
NumberToString(v) ==
    IF v[3] # 0
    THEN Digits(v[1]) \o (IF v[2] # 0 THEN <<".", Digit(v[2])>> ELSE <<>>)
         \o <<"e", "-">> \o Digits(v[3])
    ELSE IF v[1] >= 0
    THEN Digits(v[1]) \o (IF v[2] # 0 THEN <<".", Digit(v[2])>> ELSE <<>>)
    ELSE IF v[2] = 0
    THEN <<"-">> \o Digits(-v[1])
    ELSE <<"-">> \o Digits(-v[1] - 1) \o <<".", Digit(10 - v[2])>>

\* s.indexOf(c) !== -1
Contains(s, c) == \E i \in 1..Len(s) : s[i] = c

\* the closure returned by IntegerValidator.provide
IntegerCheck(this, value, name, li) ==
    IF TypeOf(value) # "number"
    THEN Fail(Err("integer_type", name, "to be an integer"), li, <<name>>)
    ELSE IF Contains(NumberToString(value.n), ".")
    THEN Fail(Err("integer_float", name, "to be an integer"), li, <<name>>)
    ELSE IF this.min.set /\ NumLess(value.n, this.min.v)
    THEN Fail(Err("integer_min", name, "to be greater than or equal to"), li, <<name>>)
    ELSE IF this.max.set /\ NumGreater(value.n, this.max.v)
    THEN Fail(Err("integer_max", name, "to be greater than or equal to"), li, <<name>>)
    ELSE Pass(li, <<name>>)

\* A compiled value checker is the chain of provider objects it closed
\* over: the array providers from the outermost in, then the leaf provider.
RECURSIVE ValueChecker(_, _, _, _, _, _)
RECURSIVE EachElement(_, _, _, _, _, _, _)

\* the element loop that runs from the last element down to the first
RECURSIVE EachElementReversed(_, _, _, _, _, _, _)
EachElementReversed(chain, ps, re, elems, i, name, li) ==
    IF i > Len(elems) THEN Pass(li, <<>>)
    ELSE LET at == Len(elems) - i + 1
             r == ValueChecker(Tail(chain), ps, re, elems[at],
                               name \o <<".">> \o <<Digit(at - 1)>>, li)
         IN  IF r.err # NoErr THEN r
             ELSE LET rest == EachElementReversed(chain, ps, re, elems, i + 1, name, r.li)
                  IN  [rest EXCEPT !.visited = r.visited \o rest.visited]

\* the element loop that checks an element which is itself an array as an
\* array again, whatever the element type of the schema
RECURSIVE EachElementByInput(_, _, _, _, _, _, _)
EachElementByInput(chain, ps, re, elems, i, name, li) ==
    IF i > Len(elems) THEN Pass(li, <<>>)
    ELSE LET r == ValueChecker(IF elems[i].k = "array" THEN chain ELSE Tail(chain),
                               ps, re, elems[i],
                               name \o <<".">> \o <<Digit(i - 1)>>, li)
         IN  IF r.err # NoErr THEN r
             ELSE LET rest == EachElementByInput(chain, ps, re, elems, i + 1, name, r.li)
                  IN  [rest EXCEPT !.visited = r.visited \o rest.visited]

\* for (let i = 0; i < value.length; i++) elementsValidator(value[i], name.i)
EachElement(chain, ps, re, elems, i, name, li) ==
    IF i > Len(elems) THEN Pass(li, <<>>)
    ELSE LET r == ValueChecker(Tail(chain), ps, re, elems[i],
                               name \o <<".">> \o <<Digit(i - 1)>>, li)
         IN  IF r.err # NoErr THEN r
             ELSE LET rest == EachElement(chain, ps, re, elems, i + 1, name, r.li)
                  IN  [rest EXCEPT !.visited = r.visited \o rest.visited]

\* the Array check that goes through the elements before it tests the length
ArrayCheckElementsFirst(chain, ps, re, value, name, li) ==
    LET this == ps[Head(chain)] IN
    IF value.k # "array"
    THEN Fail(Err("array_type", name, "to be an array"), li, <<name>>)
    ELSE LET r == EachElement(chain, ps, re, value.e, 1, name, li)
             visited == <<name>> \o r.visited
         IN  IF r.err # NoErr THEN [r EXCEPT !.visited = visited]
             ELSE IF this.min.set /\ Len(value.e) < this.min.v
             THEN Fail(Err("array_min", <<>>, "array length to be greater than"), r.li, visited)
             ELSE IF this.max.set /\ Len(value.e) > this.max.v
             THEN Fail(Err("array_max", <<>>, "array length to be lower than"), r.li, visited)
             ELSE [r EXCEPT !.visited = visited]

\* the closure returned by ArrayValidator.provide
ArrayCheck(chain, ps, re, value, name, li) ==
    LET this == ps[Head(chain)] IN
    IF value.k # "array"
    THEN Fail(Err("array_type", name, "to be an array"), li, <<name>>)
    ELSE IF this.min.set /\ Len(value.e) < this.min.v
    THEN Fail(Err("array_min", <<>>, "array length to be greater than"), li, <<name>>)
    ELSE IF this.max.set /\ Len(value.e) > this.max.v
    THEN Fail(Err("array_max", <<>>, "array length to be lower than"), li, <<name>>)
    ELSE LET r == EachElement(chain, ps, re, value.e, 1, name, li)
         IN  [r EXCEPT !.visited = <<name>> \o r.visited]

ValueChecker(chain, ps, re, value, name, li) ==
    LET this == ps[Head(chain)] IN
    CASE this.kind = "string"  -> StringCheck(this, re, value, name, li)
      [] this.kind = "integer" -> IntegerCheck(this, value, name, li)
      [] this.kind = "array"   -> ArrayCheck(chain, ps, re, value, name, li)

\* the checker that hands an absent optional value to the provider check
CheckerNoSkip(c, ps, re, body, li) ==
    IF body = Null
    THEN IF c.required
         THEN Fail(Err("required_empty_body", c.fullPath, "is required"), li, <<>>)
         ELSE Pass(li, <<>>)
    ELSE
    LET x == extractValue(body, c.path) IN
    IF x.thrown THEN Fail(x.val, li, <<>>)
    ELSE IF x.val = Undefined /\ c.required
    THEN Fail(Err("required_missing", c.fullPath, "is required"), li, <<>>)
    ELSE ValueChecker(c.providedValidation, ps, re, x.val, c.fullPath, li)

\* the checker without its test for a null body
CheckerNoNullGuard(c, ps, re, body, li) ==
    LET x == extractValue(body, c.path) IN
    IF x.thrown THEN Fail(x.val, li, <<>>)
    ELSE IF x.val = Undefined
    THEN IF c.required
         THEN Fail(Err("required_missing", c.fullPath, "is required"), li, <<>>)
         ELSE Pass(li, <<>>)
    ELSE ValueChecker(c.providedValidation, ps, re, x.val, c.fullPath, li)

\* the checker that takes a null value for an absent one (value == undefined)
CheckerNullAbsent(c, ps, re, body, li) ==
    IF body = Null
    THEN IF c.required
         THEN Fail(Err("required_empty_body", c.fullPath, "is required"), li, <<>>)
         ELSE Pass(li, <<>>)
    ELSE
    LET x == extractValue(body, c.path) IN
    IF x.thrown THEN Fail(x.val, li, <<>>)
    ELSE IF x.val \in {Undefined, Null}
    THEN IF c.required
         THEN Fail(Err("required_missing", c.fullPath, "is required"), li, <<>>)
         ELSE Pass(li, <<>>)
    ELSE ValueChecker(c.providedValidation, ps, re, x.val, c.fullPath, li)

\* the checker pushed by finishCurrent, for the sealed config c
Checker(c, ps, re, body, li) ==
    IF body = Null
    THEN IF c.required
         THEN Fail(Err("required_empty_body", c.fullPath, "is required"), li, <<>>)
         ELSE Pass(li, <<>>)
    ELSE
    LET x == extractValue(body, c.path) IN
    IF x.thrown THEN Fail(x.val, li, <<>>)
    ELSE IF x.val = Undefined
    THEN IF c.required
         THEN Fail(Err("required_missing", c.fullPath, "is required"), li, <<>>)
         ELSE Pass(li, <<>>)
    ELSE ValueChecker(c.providedValidation, ps, re, x.val, c.fullPath, li)

\* the loop that keeps the first error but goes on to the remaining checkers
RECURSIVE RunAllCheckers(_, _, _, _, _, _)
RunAllCheckers(cs, ps, re, body, i, li) ==
    IF i > Len(cs)
    THEN [err |-> NoErr, li |-> li, ran |-> <<>>]
    ELSE LET r == Checker(cs[i], ps, re, body, li)
             me == [checker |-> i, visited |-> r.visited]
             rest == RunAllCheckers(cs, ps, re, body, i + 1, r.li)
         IN  [err |-> IF r.err # NoErr THEN r.err ELSE rest.err,
              li |-> rest.li, ran |-> <<me>> \o rest.ran]

\* the loop of validate from checker i on: what the loop throws, the
\* lastIndex fields it leaves, and `ran`, the checkers it invoked in order,
\* each with the display names its value checker was invoked on
RECURSIVE RunCheckers(_, _, _, _, _, _)
RunCheckers(cs, ps, re, body, i, li) ==
    IF i > Len(cs)
    THEN [err |-> NoErr, li |-> li, ran |-> <<>>]
    ELSE LET r == Checker(cs[i], ps, re, body, li)
             me == [checker |-> i, visited |-> r.visited]
         IN  IF r.err # NoErr
             THEN [err |-> r.err, li |-> r.li, ran |-> <<me>>]
             ELSE LET rest == RunCheckers(cs, ps, re, body, i + 1, r.li)
                  IN  [rest EXCEPT !.ran = <<me>> \o rest.ran]

\* a value with every string in it trimmed
RECURSIVE Trimmed(_)
Trimmed(x) ==
    CASE x.k = "string" -> Str(Trim(x.s))
      [] x.k = "array"  -> Arr([i \in 1..Len(x.e) |-> Trimmed(x.e[i])])
      [] x.k = "object" -> Obj([key \in DOMAIN x.f |-> Trimmed(x.f[key])])
      [] OTHER -> x

\* validate returning a trimmed copy of the body as value
validateTrimmedCopy(cs, ps, re, body, li) ==
    LET r == RunCheckers(cs, ps, re, body, 1, li)
    IN  [result |-> IF r.err = NoErr
                    THEN [valid |-> TRUE, value |-> Trimmed(body)]
                    ELSE [valid |-> FALSE, error |-> r.err],
         thrown |-> NoErr, input |-> body, li |-> r.li, ran |-> r.ran]

\* validate whose catch block lets a TypeError through to the caller
validateRethrow(cs, ps, re, body, li) ==
    LET r == RunCheckers(cs, ps, re, body, 1, li)
    IN  [result |-> IF r.err = NoErr
                    THEN [valid |-> TRUE, value |-> body]
                    ELSE [valid |-> FALSE,
                          error |-> IF r.err.type = "TypeError" THEN NoErr ELSE r.err],
         thrown |-> IF r.err.type = "TypeError" THEN r.err ELSE NoErr,
         input |-> body, li |-> r.li, ran |-> r.ran]

\* Validator.validate(body): the try block returns body itself as value, the
\* catch block turns whatever the loop threw into the failure result, so
\* nothing is thrown to the caller; `input` is the body object after the call
validate(cs, ps, re, body, li) ==
    LET r == RunCheckers(cs, ps, re, body, 1, li)
    IN  [result |-> IF r.err = NoErr
                    THEN [valid |-> TRUE, value |-> body]
                    ELSE [valid |-> FALSE, error |-> r.err],
         thrown |-> NoErr, input |-> body, li |-> r.li, ran |-> r.ran]

(***************************************************************************)
(* Inputs of the model.                                                    *)
(***************************************************************************)
\* the RegExp objects the caller hands to matching(): /^a/ and /a/g
RegExps == << [src |-> <<"a">>, start |-> TRUE,  end |-> FALSE, global |-> FALSE],
              [src |-> <<"a">>, start |-> FALSE, end |-> FALSE, global |-> TRUE] >>

\* the well-formed path strings handed to requires() / optional(): 'a', 'a.b'
ValidPaths == { <<"a">>, <<"a", ".", "b">> }

\* the path strings of Spec: 'a' and the malformed 'a.'
Paths == { <<"a">>, <<"a", ".">> }

\* the numbers handed to withMinLength, withMaxLength, withMinValue, withMaxValue
BoundArgs == -1..MaxBound

\* the values found as members of a body
Leaves == { Null, Str(<<"a">>), Str(<<" ", "a", " ">>), Num(0), Num(2),
            Frac(0, 5), Arr(<<>>), Arr(<<Num(0), Str(<<"a">>)>>) }

\* the bodies handed to validate(): null, primitives, an array, and objects
\* with member a, itself a leaf or an object with member b
Bodies == { Null, EmptyObj, Num(2), Str(<<"a">>), Arr(<<Num(0)>>) }
          \cup { Obj([x \in {<<"a">>} |-> l]) : l \in Leaves }
          \cup { Obj([x \in {<<"a">>} |-> EmptyObj]) }
          \cup { Obj([x \in {<<"a">>} |-> Obj([y \in {<<"b">>} |-> l])]) : l \in Leaves }

\* the bodies validated between the calls of a builder that is still in use
ProbeBodies == { Null, Obj([x \in {<<"a">>} |-> Str(<<"a">>)]),
                 Obj([x \in {<<"a">>} |-> Num(2)]) }

(***************************************************************************)
(* State.                                                                  *)
(***************************************************************************)
VARIABLES
    checkers,     \* ValidatorBuilder.checkers, the array the Validators share
    config,       \* ValidatorBuilder.config, the open field (open = FALSE: undefined)
    providers,    \* the String/Integer/ArrayValidator objects, by allocation order
    typeStep,     \* the caller holds the builder as a TypeStep (requires/optional returned it)
    lastIndex,    \* lastIndex of each RegExp object
    built,        \* build() has returned a Validator
    atBuild,      \* the contents of the checker list when the first Validator was returned
    call          \* the last call of the caller and its outcome

vars == <<checkers, config, providers, typeStep, lastIndex, built, atBuild, call>>

NoConfig == [open |-> FALSE, fullPath |-> <<>>, path |-> <<>>, required |-> FALSE, provider |-> 0]

\* a provider object as its constructor leaves it; builder 0 is the ValidatorBuilder
NewProvider(kind, builder) ==
    [kind |-> kind, min |-> NoBound, max |-> NoBound, regex |-> 0,
     provider |-> 0, builder |-> builder, typeStep |-> FALSE]

NoResult == [valid |-> FALSE, error |-> NoErr]

\* the record of a builder call: what was called and what it threw; target
\* is the provider object it was called on (0: the builder), arg its number
\* argument and path its string argument, for the calls that have one
Called(op, thrown) ==
    [op |-> op, thrown |-> thrown, target |-> 0, arg |-> 0, path |-> <<>>,
     body |-> Undefined, input |-> Undefined, result |-> NoResult, ran |-> <<>>]

\* a call of a provider method with a number argument
CalledOn(op, target, arg, thrown) ==
    [Called(op, thrown) EXCEPT !.target = target, !.arg = arg]

\* a call of requires / optional
CalledWith(op, path, thrown) == [Called(op, thrown) EXCEPT !.path = path]

ConfigError(code) == Err(code, <<>>, "")
TypeError(code) == [type |-> "TypeError", code |-> code, name |-> <<>>, text |-> ""]

Init ==
    /\ checkers = <<>>
    /\ config = NoConfig
    /\ providers = <<>>
    /\ typeStep = FALSE
    /\ lastIndex = [r \in 1..Len(RegExps) |-> 0]
    /\ built = FALSE
    /\ atBuild = <<>>
    /\ call = Called("new", NoErr)

(***************************************************************************)
(* provide() and finishCurrent.                                            *)
(***************************************************************************)
\* does provider.provide() throw: an ArrayValidator without element provider
\* evaluates this.provider!.provide() on undefined
RECURSIVE ProvideThrows(_, _)
ProvideThrows(ps, p) ==
    /\ ps[p].kind = "array"
    /\ \/ ps[p].provider = 0
       \/ ProvideThrows(ps, ps[p].provider)

\* the provider of the innermost elements under provider p
RECURSIVE LeafOf(_, _)
LeafOf(ps, p) == IF ps[p].kind = "array" THEN LeafOf(ps, ps[p].provider) ELSE p

\* provide() of an array that hands its elements to the innermost element
\* check, whatever the nesting
ProvideFlat(ps, p) ==
    IF ps[p].kind = "array" THEN <<p, LeafOf(ps, p)>> ELSE <<p>>

\* provider.provide(): the closure, as the chain of providers it closes over
RECURSIVE Provide(_, _)
Provide(ps, p) ==
    IF ps[p].kind = "array" THEN <<p>> \o Provide(ps, ps[p].provider) ELSE <<p>>

\* finishCurrent that puts the new checker in front of the list (unshift)
finishCurrentUnshift(cs, cfg, ps) ==
    IF ~cfg.open
    THEN [checkers |-> cs, config |-> cfg, thrown |-> NoErr]
    ELSE IF cfg.provider = 0 \/ ProvideThrows(ps, cfg.provider)
    THEN [checkers |-> cs, config |-> cfg, thrown |-> TypeError("provide_of_undefined")]
    ELSE [checkers |-> <<[fullPath |-> cfg.fullPath, path |-> cfg.path,
                          required |-> cfg.required,
                          providedValidation |-> Provide(ps, cfg.provider)]>> \o cs,
          config |-> NoConfig, thrown |-> NoErr]

\* finishCurrent(): the checker list and config it leaves, and what it threw
finishCurrent(cs, cfg, ps) ==
    IF ~cfg.open
    THEN [checkers |-> cs, config |-> cfg, thrown |-> NoErr]
    ELSE IF cfg.provider = 0 \/ ProvideThrows(ps, cfg.provider)
    THEN [checkers |-> cs, config |-> cfg, thrown |-> TypeError("provide_of_undefined")]
    ELSE [checkers |-> Append(cs, [fullPath |-> cfg.fullPath, path |-> cfg.path,
                                   required |-> cfg.required,
                                   providedValidation |-> Provide(ps, cfg.provider)]),
          config |-> NoConfig, thrown |-> NoErr]

(***************************************************************************)
(* The calls of the staged builder interface.  The caller may call any     *)
(* method its interface types offer on any step object it was ever handed. *)
(* A call that throws is recorded in call.thrown, with the state as the    *)
(* throw left it.                                                          *)
(***************************************************************************)
\* requires(path) and optional(path): finishCurrent(), then the new config,
\* whose path: parsePath(path) is evaluated before the assignment.
\* String, Integer and Array steps forward both calls to the builder.
OpenField(op, path, required) ==
    /\ Len(checkers) + (IF config.open THEN 1 ELSE 0) < MaxCheckers
    /\ LET f == finishCurrent(checkers, config, providers) IN
       IF f.thrown # NoErr
       THEN /\ call' = CalledWith(op, path, f.thrown)
            /\ UNCHANGED <<checkers, config, typeStep>>
       ELSE /\ checkers' = f.checkers
            /\ IF PathThrows(path)
               THEN /\ config' = f.config
                    /\ call' = CalledWith(op, path,
                                   ConfigError(IF PathIsEmpty(path)
                                               THEN "path_empty"
                                               ELSE "path_empty_part"))
                    /\ UNCHANGED typeStep
               ELSE /\ config' = [open |-> TRUE, fullPath |-> path,
                                  path |-> parsePath(path),
                                  required |-> required, provider |-> 0]
                    /\ typeStep' = TRUE
                    /\ call' = CalledWith(op, path, NoErr)
    /\ UNCHANGED <<providers, lastIndex, built, atBuild>>

Requires(path) == OpenField("requires", path, TRUE)

Optional(path) == OpenField("optional", path, FALSE)

\* the model allocates a provider only while fewer than MaxProviders exist
ProviderRoom == Len(providers) < MaxProviders

\* the array providers the caller holds as a TypeStep
ElementSteps == {a \in 1..Len(providers) : providers[a].kind = "array" /\ providers[a].typeStep}

\* toBeString / toBeInteger / toBeArray on `target`: 0 is the builder, which
\* sets this.config!.provider, an array provider sets this.provider
ToBe(op, kind, target) ==
    /\ IF target = 0 THEN typeStep ELSE target \in ElementSteps
    /\ IF target = 0 /\ ~config.open
       THEN /\ call' = Called(op, TypeError("provider_of_undefined"))
            /\ UNCHANGED <<providers, config>>
       ELSE LET p == Len(providers) + 1 IN
            /\ call' = Called(op, NoErr)
            /\ IF target = 0
               THEN /\ providers' = Append(providers, NewProvider(kind, 0))
                    /\ config' = [config EXCEPT !.provider = p]
               ELSE /\ providers' = Append([providers EXCEPT ![target].provider = p],
                                           NewProvider(kind, target))
                    /\ UNCHANGED config
    /\ UNCHANGED <<checkers, typeStep, lastIndex, built, atBuild>>

ToBeString(target) == ToBe("toBeString", "string", target)

ToBeInteger(target) == ToBe("toBeInteger", "integer", target)

ToBeArray(target) == ToBe("toBeArray", "array", target)

\* the bounds and regular expressions set so far, over all providers
RECURSIVE Constraints(_, _)
Constraints(ps, p) ==
    IF p > Len(ps) THEN 0
    ELSE (IF ps[p].min.set THEN 1 ELSE 0) + (IF ps[p].max.set THEN 1 ELSE 0)
         + (IF ps[p].regex # 0 THEN 1 ELSE 0) + Constraints(ps, p + 1)

\* the model sets a constraint anew only while fewer than MaxConstraints are set
Room(alreadySet) == alreadySet \/ Constraints(providers, 1) < MaxConstraints

\* ArrayValidator.withEachElement(): returns this as a TypeStep
WithEachElement(a) ==
    /\ providers[a].kind = "array"
    /\ ~providers[a].typeStep
    /\ providers' = [providers EXCEPT ![a].typeStep = TRUE]
    /\ call' = Called("withEachElement", NoErr)
    /\ UNCHANGED <<checkers, config, typeStep, lastIndex, built, atBuild>>

\* withMinLength that stores the bound before it tests its sign
WithMinLengthStoresFirst(p, length) ==
    /\ providers[p].kind \in {"string", "array"}
    /\ providers' = [providers EXCEPT ![p].min = Bound(length)]
    /\ call' = CalledOn("withMinLength", p, length,
           IF length < 0 THEN ConfigError("length_negative")
           ELSE IF providers[p].max.set /\ providers[p].max.v < length
           THEN ConfigError("min_above_max") ELSE NoErr)
    /\ UNCHANGED <<checkers, config, typeStep, lastIndex, built, atBuild>>

\* withMinLength(length) of StringValidator and of ArrayValidator: the
\* negative check, the store, then the comparison with the other bound
WithMinLength(p, length) ==
    /\ providers[p].kind \in {"string", "array"}
    /\ IF length < 0
       THEN /\ call' = CalledOn("withMinLength", p, length, ConfigError("length_negative"))
            /\ UNCHANGED providers
       ELSE /\ providers' = [providers EXCEPT ![p].min = Bound(length)]
            /\ call' = CalledOn("withMinLength", p, length,
                   IF providers[p].max.set /\ providers[p].max.v < length
                   THEN ConfigError("min_above_max") ELSE NoErr)
    /\ UNCHANGED <<checkers, config, typeStep, lastIndex, built, atBuild>>

\* withMaxLength that stores the bound without comparing it with the minimum
WithMaxLengthUnchecked(p, length) ==
    /\ providers[p].kind \in {"string", "array"}
    /\ IF length < 0
       THEN /\ call' = CalledOn("withMaxLength", p, length, ConfigError("length_negative"))
            /\ UNCHANGED providers
       ELSE /\ providers' = [providers EXCEPT ![p].max = Bound(length)]
            /\ call' = CalledOn("withMaxLength", p, length, NoErr)
    /\ UNCHANGED <<checkers, config, typeStep, lastIndex, built, atBuild>>

WithMaxLength(p, length) ==
    /\ providers[p].kind \in {"string", "array"}
    /\ IF length < 0
       THEN /\ call' = CalledOn("withMaxLength", p, length, ConfigError("length_negative"))
            /\ UNCHANGED providers
       ELSE /\ providers' = [providers EXCEPT ![p].max = Bound(length)]
            /\ call' = CalledOn("withMaxLength", p, length,
                   IF providers[p].min.set /\ length < providers[p].min.v
                   THEN ConfigError("max_below_min") ELSE NoErr)
    /\ UNCHANGED <<checkers, config, typeStep, lastIndex, built, atBuild>>

\* withMinValue(value) / withMaxValue(value) of IntegerValidator
WithMinValue(p, value) ==
    /\ providers[p].kind = "integer"
    /\ providers' = [providers EXCEPT ![p].min = Bound(value)]
    /\ call' = CalledOn("withMinValue", p, value,
           IF providers[p].max.set /\ providers[p].max.v < value
           THEN ConfigError("min_above_max") ELSE NoErr)
    /\ UNCHANGED <<checkers, config, typeStep, lastIndex, built, atBuild>>

WithMaxValue(p, value) ==
    /\ providers[p].kind = "integer"
    /\ providers' = [providers EXCEPT ![p].max = Bound(value)]
    /\ call' = CalledOn("withMaxValue", p, value,
           IF providers[p].min.set /\ value < providers[p].min.v
           THEN ConfigError("max_below_min") ELSE NoErr)
    /\ UNCHANGED <<checkers, config, typeStep, lastIndex, built, atBuild>>

\* StringValidator.matching(regex), regex being the r-th RegExp object
Matching(p, r) ==
    /\ providers[p].kind = "string"
    /\ providers' = [providers EXCEPT ![p].regex = r]
    /\ call' = CalledOn("matching", p, r, NoErr)
    /\ UNCHANGED <<checkers, config, typeStep, lastIndex, built, atBuild>>

\* build(): finishCurrent(), then the Validator closing over this.checkers
\* (the array itself: the Validator reads `checkers` when validate runs)
Build ==
    LET f == finishCurrent(checkers, config, providers) IN
    /\ IF f.thrown # NoErr
       THEN /\ call' = Called("build", f.thrown)
            /\ UNCHANGED <<checkers, config, built, atBuild>>
       ELSE /\ checkers' = f.checkers
            /\ config' = f.config
            /\ built' = TRUE
            /\ atBuild' = IF built THEN atBuild ELSE f.checkers
            /\ call' = Called("build", NoErr)
    /\ UNCHANGED <<providers, typeStep, lastIndex>>

\* validator.validate(body) on a Validator that build() returned
Validate(body) ==
    /\ built
    /\ LET r == validate(checkers, providers, RegExps, body, lastIndex) IN
       /\ lastIndex' = r.li
       /\ call' = [Called("validate", r.thrown) EXCEPT
                       !.body = body, !.input = r.input,
                       !.result = r.result, !.ran = r.ran]
    /\ UNCHANGED <<checkers, config, providers, typeStep, built, atBuild>>

(***************************************************************************)
(* Spec: every call sequence the staged interface types allow, step        *)
(* objects retained from earlier in the chain included.                    *)
(***************************************************************************)
Next ==
    \/ \E path \in Paths : Requires(path)
    \/ \E path \in Paths : Optional(path)
    \/ \E target \in 0..Len(providers) : ProviderRoom /\ ToBeString(target)
    \/ \E target \in 0..Len(providers) : ProviderRoom /\ ToBeInteger(target)
    \/ \E target \in 0..Len(providers) : ProviderRoom /\ ToBeArray(target)
    \/ \E a \in 1..Len(providers) : WithEachElement(a)
    \/ \E p \in 1..Len(providers), n \in BoundArgs :
           Room(providers[p].min.set) /\ WithMinLength(p, n)
    \/ \E p \in 1..Len(providers), n \in BoundArgs :
           Room(providers[p].max.set) /\ WithMaxLength(p, n)
    \/ \E p \in 1..Len(providers), n \in BoundArgs :
           Room(providers[p].min.set) /\ WithMinValue(p, n)
    \/ \E p \in 1..Len(providers), n \in BoundArgs :
           Room(providers[p].max.set) /\ WithMaxValue(p, n)
    \/ \E p \in 1..Len(providers), r \in 1..Len(RegExps) :
           Room(providers[p].regex # 0) /\ Matching(p, r)
    \/ Build
    \/ \E body \in ProbeBodies : Validate(body)

Spec == Init /\ [][Next]_vars

(***************************************************************************)
(* SpecV: the fluent chains.  The caller calls each method on the step     *)
(* object the previous call returned, with well-formed paths and           *)
(* non-negative bounds, stops building at build() and then validates       *)
(* bodies against the Validator it got.                                    *)
(***************************************************************************)
Chaining == ~built /\ call.thrown = NoErr

SetterOps == {"withMinLength", "withMaxLength", "withMinValue", "withMaxValue", "matching"}

\* the previous call returned the provider p as its typed step
AtStep(p) ==
    /\ Chaining
    /\ p = Len(providers)
    /\ call.op \in {"toBeString", "toBeInteger", "toBeArray"} \cup SetterOps

\* the previous call returned a BuildStep: the builder, or a String/Integer step
AtBuildStep ==
    /\ Chaining
    /\ \/ call.op = "new"
       \/ /\ AtStep(Len(providers))
          /\ providers[Len(providers)].kind \in {"string", "integer"}

\* the previous call returned `target` as a TypeStep
AtTypeStep(target) ==
    /\ Chaining
    /\ \/ target = 0 /\ call.op \in {"requires", "optional"}
       \/ target = Len(providers) /\ call.op = "withEachElement"

NextV ==
    \/ \E path \in ValidPaths : AtBuildStep /\ Requires(path)
    \/ \E path \in ValidPaths : AtBuildStep /\ Optional(path)
    \/ \E target \in 0..Len(providers) :
           AtTypeStep(target) /\ ProviderRoom /\ ToBeString(target)
    \/ \E target \in 0..Len(providers) :
           AtTypeStep(target) /\ ProviderRoom /\ ToBeInteger(target)
    \/ \E target \in 0..Len(providers) :
           AtTypeStep(target) /\ ProviderRoom /\ ToBeArray(target)
    \/ \E a \in 1..Len(providers) : AtStep(a) /\ WithEachElement(a)
    \/ \E p \in 1..Len(providers), n \in 0..MaxBound :
           AtStep(p) /\ Room(providers[p].min.set) /\ WithMinLength(p, n)
    \/ \E p \in 1..Len(providers), n \in 0..MaxBound :
           AtStep(p) /\ Room(providers[p].max.set) /\ WithMaxLength(p, n)
    \/ \E p \in 1..Len(providers), n \in 0..MaxBound :
           AtStep(p) /\ Room(providers[p].min.set) /\ WithMinValue(p, n)
    \/ \E p \in 1..Len(providers), n \in 0..MaxBound :
           AtStep(p) /\ Room(providers[p].max.set) /\ WithMaxValue(p, n)
    \/ \E p \in 1..Len(providers), r \in 1..Len(RegExps) :
           AtStep(p) /\ Room(providers[p].regex # 0) /\ Matching(p, r)
    \/ AtBuildStep /\ Build
    \/ \E body \in Bodies : Validate(body)

SpecV == Init /\ [][NextV]_vars

(***************************************************************************)
(* SpecField: the schemas of one required field a.  The caller chooses the *)
(* kind of the field (for an array also the kind of its elements), calls   *)
(* the bound setters of the step objects it holds in any order and with    *)
(* any argument, going on after a setter has thrown, then builds and       *)
(* validates bodies {a: value}.                                            *)
(***************************************************************************)
FieldPath == <<"a">>

\* the values of member a
FieldValues ==
    { Null, EmptyObj,
      Str(<<>>), Str(<<" ">>), Str(<<"a">>), Str(<<" ", "a", " ">>), Str(<<"b">>),
      Str(<<"a", "b">>), Str(<<"b", "a">>),
      Num(-2), Num(-1), Num(0), Num(1), Num(2), Frac(0, 5), Frac(1, 5), Frac(-1, 5),
      Exp(1, 0, 7), Exp(1, 5, 7),
      Arr(<<>>), Arr(<<Num(0)>>), Arr(<<Num(0), Num(2)>>), Arr(<<Str(<<"a">>)>>),
      Arr(<<Num(0), Str(<<"a">>)>>), Arr(<<Str(<<"a">>), Num(0)>>),
      Arr(<<Str(<<"b">>), Str(<<"a">>)>>), Arr(<<Str(<<"a">>), Str(<<"a">>)>>),
      Arr(<<Num(0), Num(2), Str(<<"a">>)>>) }

FieldBody(v) == Obj([k \in {FieldPath} |-> v])

\* the numbers handed to the bound setters of the field
FieldBoundArgs == (0 - MaxBound - 1)..MaxBound

FieldBodies == { FieldBody(v) : v \in FieldValues }

\* the array provider a still has no element provider
NoElementYet(a) == a \in ElementSteps /\ providers[a].provider = 0

NextF ==
    \/ call.op = "new" /\ Requires(FieldPath)
    \/ AtTypeStep(0) /\ ProviderRoom /\ ToBeString(0)
    \/ AtTypeStep(0) /\ ProviderRoom /\ ToBeInteger(0)
    \/ AtTypeStep(0) /\ ProviderRoom /\ ToBeArray(0)
    \/ \E a \in 1..Len(providers) : ~built /\ WithEachElement(a)
    \/ \E a \in 1..Len(providers) : ~built /\ NoElementYet(a) /\ ProviderRoom /\ ToBeString(a)
    \/ \E a \in 1..Len(providers) : ~built /\ NoElementYet(a) /\ ProviderRoom /\ ToBeInteger(a)
    \/ \E p \in 1..Len(providers), n \in FieldBoundArgs : ~built /\ WithMinLength(p, n)
    \/ \E p \in 1..Len(providers), n \in FieldBoundArgs : ~built /\ WithMaxLength(p, n)
    \/ \E p \in 1..Len(providers), n \in FieldBoundArgs : ~built /\ WithMinValue(p, n)
    \/ \E p \in 1..Len(providers), n \in FieldBoundArgs : ~built /\ WithMaxValue(p, n)
    \/ \E p \in 1..Len(providers), r \in 1..Len(RegExps) : ~built /\ Matching(p, r)
    \/ ~built /\ config.open /\ config.provider # 0 /\ Build
    \/ \E body \in FieldBodies : Validate(body)

SpecField == Init /\ [][NextF]_vars

(***************************************************************************)
(* SpecPath: the path strings.  The caller declares up to MaxCheckers      *)
(* fields with well-formed, padded and malformed paths, going on after a   *)
(* call has thrown, then builds and validates bodies whose keys are the    *)
(* bare and the padded segment names.                                      *)
(***************************************************************************)
\* ' a . b '
PaddedPath == <<" ", "a", " ", ".", " ", "b", " ">>

\* '', ' ', '.a', 'a.', 'a..b', 'a. .b'
BadPaths == { <<>>, <<" ">>, <<".", "a">>, <<"a", ".">>, <<"a", ".", ".", "b">>,
              <<"a", ".", " ", ".", "b">> }

PathInputs == ValidPaths \cup {PaddedPath} \cup BadPaths

PathBodies ==
    { Null, EmptyObj,
      Obj([x \in {<<"a">>} |-> Num(2)]),
      Obj([x \in {<<"a">>} |-> Null]),
      Obj([x \in {<<"a">>} |-> Obj([y \in {<<"b">>} |-> Num(2)])]),
      Obj([x \in {<<"a">>} |-> Obj([y \in {<<"b">>} |-> Str(<<"a">>)])]),
      Obj([x \in {<<"a">>} |-> Obj([y \in {<<" ", "b">>} |-> Num(2)])]),
      Obj([x \in {<<"a", " ">>} |-> Obj([y \in {<<" ", "b">>} |-> Num(2)])]) }

NextP ==
    \/ \E path \in PathInputs : ~built /\ Requires(path)
    \/ \E path \in PathInputs : ~built /\ Optional(path)
    \/ AtTypeStep(0) /\ ProviderRoom /\ ToBeString(0)
    \/ AtTypeStep(0) /\ ProviderRoom /\ ToBeInteger(0)
    \/ ~built /\ Build
    \/ \E body \in PathBodies : Validate(body)

SpecPath == Init /\ [][NextP]_vars

(***************************************************************************)
(* SpecScenario: the schema of the 'Required parameter' tests,             *)
(*   requires('username').toBeString().withMinLength(5)                    *)
(*   .requires('address.num').toBeInteger().withMinValue(0)                *)
(*   .withMaxValue(500).build(),                                           *)
(* and the same chain without its first field, validating bodies with      *)
(* members username and address.                                           *)
(***************************************************************************)
Username == <<"u", "s", "e", "r", "n", "a", "m", "e">>
Address == <<"a", "d", "d", "r", "e", "s", "s">>
NumKey == <<"n", "u", "m">>
AddressNum == Address \o <<".">> \o NumKey

John == Str(<<"J", "o", "h", "n">>)
George == Str(<<"G", "e", "o", "r", "g", "e">>)

WithNum(x) == Obj([k \in {NumKey} |-> x])

\* a member that is absent is given as Undefined
UsernameMembers == { Undefined, John, George, Num(2),
                     Str(<<" ", "J", "o", "h", "n", " ", " ">>) }

AddressMembers == { Undefined, Null, EmptyObj, Num(5), Arr(<<>>) }
                  \cup { WithNum(x) : x \in { Num(120), Num(750), Num(0), Num(500),
                                              Num(501), Num(-1), Frac(1, 5), Null,
                                              Str(<<"1", "2", "0">>) } }

ScenarioBody(u, a) ==
    Obj([k \in {m \in {Username, Address} :
                  IF m = Username THEN u # Undefined ELSE a # Undefined}
           |-> IF k = Username THEN u ELSE a])

ScenarioBodies == { Null } \cup
                  { ScenarioBody(u, a) : u \in UsernameMembers, a \in AddressMembers }

NextS ==
    \/ \E path \in {Username, AddressNum} :
           /\ call.op = "new" \/ (call.op = "withMinLength" /\ path = AddressNum)
           /\ Requires(path)
    \/ call.op = "requires" /\ config.fullPath = Username /\ ToBeString(0)
    \/ call.op = "toBeString" /\ WithMinLength(Len(providers), 5)
    \/ call.op = "requires" /\ config.fullPath = AddressNum /\ ToBeInteger(0)
    \/ call.op = "toBeInteger" /\ WithMinValue(Len(providers), 0)
    \/ call.op = "withMinValue" /\ WithMaxValue(Len(providers), 500)
    \/ call.op = "withMaxValue" /\ Build
    \/ \E body \in ScenarioBodies : Validate(body)

SpecScenario == Init /\ [][NextS]_vars

(***************************************************************************)
(* SpecMatrix: the schema of the nested array test,                        *)
(*   requires('matrix').toBeArray().withEachElement()                      *)
(*       .toBeArray().withMinLength(2).withEachElement()                   *)
(*           .toBeInteger().withMinValue(0).build(),                       *)
(* and the same chain without withMinLength(2), validating bodies whose    *)
(* member matrix is a list of up to three rows.                            *)
(***************************************************************************)
Matrix == <<"m", "a", "t", "r", "i", "x">>

\* the length bound of the inner arrays
RowMin == 2

Rows == { Arr(<<Num(0), Num(1)>>), Arr(<<Num(5), Num(8), Num(7)>>),
          Arr(<<Num(5), Num(-1)>>), Arr(<<Num(5)>>), Arr(<<>>),
          Arr(<<Num(0), Str(<<"a">>)>>), Num(5) }

MatrixValues ==
    { Arr(<<>>), Num(5) }
    \cup { Arr(<<r>>) : r \in Rows }
    \cup { Arr(<<r1, r2>>) : r1 \in Rows, r2 \in Rows }
    \cup { Arr(<<Arr(<<Num(0), Num(1)>>), Arr(<<Num(5), Num(8), Num(7)>>), r>>) : r \in Rows }

MatrixBodies == { EmptyObj } \cup { Obj([k \in {Matrix} |-> m]) : m \in MatrixValues }

NextM ==
    \/ call.op = "new" /\ Requires(Matrix)
    \/ call.op = "requires" /\ ToBeArray(0)
    \/ \E a \in {1, 2} : a = Len(providers) /\ call.op # "withEachElement" /\ WithEachElement(a)
    \/ call.op = "withEachElement" /\ Len(providers) = 1 /\ ToBeArray(1)
    \/ call.op = "toBeArray" /\ Len(providers) = 2 /\ WithMinLength(2, RowMin)
    \/ call.op = "withEachElement" /\ Len(providers) = 2 /\ ToBeInteger(2)
    \/ call.op = "toBeInteger" /\ WithMinValue(3, 0)
    \/ call.op = "withMinValue" /\ Build
    \/ \E body \in MatrixBodies : Validate(body)

SpecMatrix == Init /\ [][NextM]_vars

(***************************************************************************)
(* SpecPermissions: canManagePermissions (src/src/utils/permissions.ts)    *)
(* called with every source and target user made of a BDE and a set of     *)
(* permissions.  A permission is modelled by its name, a permissions array *)
(* by the set of the permissions it includes.                              *)
(***************************************************************************)
ALL == "all"
ADD_USER == "add_user"
MANAGE_PERMISSIONS == "manage_permissions"
MANAGE_BDE == "manage_bde"
MANAGE_EVENTS == "manage_events"

Permissions == {ALL, ADD_USER, MANAGE_PERMISSIONS, MANAGE_BDE, MANAGE_EVENTS}

BdeUUIDs == {"bde-uuid", "other-bde-uuid"}

Users == [bdeUUID : BdeUUIDs, permissions : SUBSET Permissions]

\* permissions.includes(permission)
Includes(permissions, permission) == permission \in permissions

canManagePermissions(source, target) ==
    IF Includes(source.permissions, ALL) /\ ~Includes(target.permissions, ALL)
    THEN TRUE
    ELSE IF ~Includes(source.permissions, MANAGE_PERMISSIONS)
    THEN FALSE
    ELSE IF source.bdeUUID # target.bdeUUID
    THEN FALSE
    ELSE \/ ~Includes(target.permissions, MANAGE_PERMISSIONS)
         \/ Includes(source.permissions, MANAGE_BDE)

\* a caller asks whether source can manage the permissions of target
CanManagePermissions(source, target) ==
    /\ call' = [op |-> "canManagePermissions", source |-> source, target |-> target,
                returned |-> canManagePermissions(source, target)]
    /\ UNCHANGED <<checkers, config, providers, typeStep, lastIndex, built, atBuild>>

NextPermissions ==
    \E source \in Users, target \in Users : CanManagePermissions(source, target)

SpecPermissions == Init /\ [][NextPermissions]_vars

(***************************************************************************)
(* SpecNested: schemas of one required field, a or a.b, that is an integer *)
(* or an array nested up to MaxNesting deep of integers, built as a fluent  *)
(* chain, validating bodies whose objects go deeper than the path and whose *)
(* arrays go deeper than the schema.                                        *)
(***************************************************************************)
\* leaf wrapped in n arrays of one element
RECURSIVE Nested(_, _)
Nested(n, leaf) == IF n = 0 THEN leaf ELSE Arr(<<Nested(n - 1, leaf)>>)

NestedValues ==
    { Null, Num(0), Str(<<"a">>), Arr(<<>>), Arr(<<Num(0), Num(1)>>),
      Arr(<<Arr(<<Num(0), Num(1)>>), Arr(<<Num(2)>>)>>),
      Arr(<<Arr(<<Num(0)>>), Arr(<<Arr(<<Num(1)>>), Num(2)>>)>>) }
    \cup { Nested(n, Num(0)) : n \in 1..(MaxNesting + 2) }

NestedBodies ==
    { Null, EmptyObj }
    \cup { Obj([x \in {<<"a">>} |-> v]) : v \in NestedValues }
    \cup { Obj([x \in {<<"a">>} |-> Obj([y \in {<<"b">>} |-> v])]) : v \in NestedValues }
    \cup { Obj([x \in {<<"a">>} |->
               Obj([y \in {<<"b">>} |-> Obj([z \in {<<"c">>} |-> v])])]) : v \in NestedValues }

NextN ==
    \/ \E path \in ValidPaths : call.op = "new" /\ Requires(path)
    \/ \E target \in 0..Len(providers) : AtTypeStep(target) /\ ToBeInteger(target)
    \/ \E target \in 0..Len(providers) :
           AtTypeStep(target) /\ Len(providers) < MaxNesting /\ ToBeArray(target)
    \/ \E a \in 1..Len(providers) : AtStep(a) /\ WithEachElement(a)
    \/ AtBuildStep /\ Build
    \/ \E body \in NestedBodies : Validate(body)

SpecNested == Init /\ [][NextN]_vars

(***************************************************************************)
(* Properties.                                                             *)
(***************************************************************************)
Validated == call.op = "validate"

\* the lastIndex fields as checkers 1..i-1 leave them when run on body in turn
RECURSIVE LiBefore(_, _, _)
LiBefore(i, body, li) ==
    IF i = 1 THEN li
    ELSE Checker(checkers[i - 1], providers, RegExps, body, LiBefore(i - 1, body, li)).li

\* what the check of the i-th declared field throws when its turn comes
FieldError(i, body, li) ==
    Checker(checkers[i], providers, RegExps, body, LiBefore(i, body, li)).err

\* the checkers a validate call invoked, in the order it invoked them
RanOrder(c) == [k \in 1..Len(c.ran) |-> c.ran[k].checker]

\* C1: validate runs the checkers in declaration order and is fail-fast: the
\* reported error is the error of the first declared field whose check
\* fails, the checkers run are exactly those up to that field, and when no
\* check fails all checkers have run, in order, and the result is valid.
C1_FailFastInOrder ==
    [][call'.op = "validate" =>
         LET body == call'.body
             failing == {i \in 1..Len(checkers) : FieldError(i, body, lastIndex) # NoErr}
         IN  IF failing = {}
             THEN /\ call'.result.valid
                  /\ RanOrder(call') = [k \in 1..Len(checkers) |-> k]
             ELSE LET first == CHOOSE i \in failing : \A j \in failing : i <= j
                  IN  /\ ~call'.result.valid
                      /\ call'.result.error = FieldError(first, body, lastIndex)
                      /\ RanOrder(call') = [k \in 1..first |-> k]]_vars

\* a validate call stopped at the first of two fields whose checks both fail
C1_Witness ==
    /\ Validated
    /\ Len(checkers) = 2
    /\ RanOrder(call) = <<1>>
    /\ ~call.result.valid
    /\ Checker(checkers[2], providers, RegExps, call.body, lastIndex).err # NoErr

\* C2: for a body that is not null and a field whose path resolves to
\* NOT_FOUND, a required field makes validate fail with the 'required' error
\* of that field, an optional field is skipped (no provider check, success);
\* when the path resolves to a value the provider check runs on it.
C2_RequiredOrSkipped ==
    (Validated /\ call.body # Null) =>
        \A k \in 1..Len(call.ran) :
            LET c == checkers[call.ran[k].checker]
                x == extractValue(call.body, c.path)
            IN  /\ (~x.thrown /\ x.val = Undefined /\ c.required) =>
                       /\ k = Len(call.ran)
                       /\ ~call.result.valid
                       /\ call.result.error = Err("required_missing", c.fullPath, "is required")
                /\ (~x.thrown /\ x.val = Undefined /\ ~c.required) =>
                       /\ call.ran[k].visited = <<>>
                       /\ k = Len(call.ran) => call.result.valid
                /\ (~x.thrown /\ x.val # Undefined) =>
                       /\ call.ran[k].visited # <<>>
                       /\ call.ran[k].visited[1] = c.fullPath

\* a call that skipped an absent optional field and then ran the provider
\* check of a present one
C2_Witness ==
    /\ Validated
    /\ Len(call.ran) = 2
    /\ ~checkers[1].required
    /\ call.ran[1].visited = <<>>
    /\ call.ran[2].visited # <<>>

\* C3: a successful validate returns the raw input itself as value (strings
\* untrimmed), and the input is the same after the call as before it,
\* whether the call succeeds or fails.
C3_ValueIsInput ==
    Validated =>
        /\ call.input = call.body
        /\ call.result.valid => call.result.value = call.body

\* a body accepted only because its string was trimmed before the check
C3_Witness ==
    /\ Validated
    /\ call.result.valid
    /\ \E i \in 1..Len(checkers) :
           LET x == extractValue(call.body, checkers[i].path)
               p == providers[checkers[i].providedValidation[1]]
           IN  /\ ~x.thrown
               /\ x.val.k = "string"
               /\ p.kind = "string"
               /\ p.max.set
               /\ Len(x.val.s) > p.max.v

\* C4: validate returns exactly one of {valid: true, value} and
\* {valid: false, error} and throws nothing to its caller, whatever the
\* schema and the input.
C4_TaggedResultNoThrow ==
    Validated =>
        /\ call.thrown = NoErr
        /\ IF call.result.valid
           THEN DOMAIN call.result = {"valid", "value"}
           ELSE /\ DOMAIN call.result = {"valid", "error"}
                /\ call.result.error # NoErr

\* a runtime TypeError raised while checking came back as a failure result
C4_Witness ==
    /\ Validated
    /\ ~call.result.valid
    /\ call.result.error.type = "TypeError"

C6_ResolutionNeverRaises ==
    (Validated /\ call.body # Null) =>
        \A k \in 1..Len(call.ran) :
            ~extractValue(call.body, checkers[call.ran[k].checker].path).thrown

\* the schema of SpecScenario without / with the username field
SchemaAddressOnly == built /\ Len(checkers) = 1
SchemaUsernameAddress == built /\ Len(checkers) = 2

MissingAddressNum ==
    [valid |-> FALSE, error |-> Err("required_missing", AddressNum, "is required")]

\* the body with an empty object put as its address member
WithEmptyAddress(body) ==
    Obj([k \in DOMAIN body.f \cup {Address} |-> IF k = Address THEN EmptyObj ELSE body.f[k]])

\* C7: a schema requiring address.num as an integer in [0,500] rejects {} and
\* {address:{}}, both as a missing required field, accepts
\* {address:{num:120}} and rejects {address:{num:750}}; and a body without
\* address gets the result the same body with address: {} gets.
C7_NestedPath ==
    /\ (Validated /\ SchemaAddressOnly) =>
           /\ call.body = EmptyObj => call.result = MissingAddressNum
           /\ call.body = ScenarioBody(Undefined, EmptyObj) => call.result = MissingAddressNum
           /\ call.body = ScenarioBody(Undefined, WithNum(Num(120))) => call.result.valid
           /\ call.body = ScenarioBody(Undefined, WithNum(Num(750))) =>
                  /\ ~call.result.valid
                  /\ call.result.error.code = "integer_max"
                  /\ call.result.error.name = AddressNum
    /\ (Validated /\ call.body.k = "object" /\ Address \notin DOMAIN call.body.f) =>
           /\ ~call.result.valid
           /\ call.result = validate(checkers, providers, RegExps,
                                     WithEmptyAddress(call.body), lastIndex).result

\* {} was validated against the schema that requires address.num alone
C7_Witness == Validated /\ SchemaAddressOnly /\ call.body = EmptyObj

JohnBody == ScenarioBody(John, WithNum(Num(750)))

\* C8 as claimed: validating {username: 'John', address: {num: 750}} against
\* the two-field schema is invalid and the error references address.num.
C8_ErrorNamesAddressNum ==
    (Validated /\ SchemaUsernameAddress /\ call.body = JohnBody) =>
        /\ ~call.result.valid
        /\ call.result.error.name = AddressNum

\* C8 as amended: validating {username: 'John', address: {num: 750}} against
\* the two-field schema is invalid, the error is the minimum-length error of
\* username, the first declared field, and address.num is not checked.
C8_ErrorNamesUsername ==
    (Validated /\ SchemaUsernameAddress /\ call.body = JohnBody) =>
        /\ ~call.result.valid
        /\ call.result.error.code = "string_min"
        /\ call.result.error.name = Username
        /\ RanOrder(call) = <<1>>

\* {username: 'John', address: {num: 750}} was validated against that schema
C8_Witness == Validated /\ SchemaUsernameAddress /\ call.body = JohnBody

\* C9 as claimed: once build() has returned a Validator, the checker list
\* that Validator runs is the list as it was when build() returned.
C9_ValidatorFrozen == built => checkers = atBuild

\* C10 as claimed: validating the same body twice in a row against the same
\* Validator yields the same result.
C10_Idempotent ==
    [][(Validated /\ call'.op = "validate" /\ call'.body = call.body) =>
           call'.result = call.result]_vars

\* the result validate(body) gives when it is the only call ever made on the
\* Validator that build() returned
RunAlone(body) ==
    validate(atBuild, providers, RegExps, body, [r \in 1..Len(RegExps) |-> 0]).result

\* C11 as claimed: validate calls on one Validator do not influence each
\* other; in whatever order the calls of several callers run (a call runs to
\* completion, there is no suspension point in it), each returns the result
\* it returns when run alone.
C11_ResultAsWhenRunAlone == Validated => call.result = RunAlone(call.body)

\* the codes of the configuration errors
ConfigCodes == {"path_empty", "path_empty_part", "length_negative",
                "min_above_max", "max_below_min"}

\* C12: a maximum set below the minimum already set, or a minimum set above
\* the maximum already set, makes the setter call itself throw a
\* configuration error, on String, Integer and Array providers alike; a
\* bound set equal to the opposite bound is accepted and stored; and
\* validate neither throws nor reports a configuration error.
C12_BoundSymmetry ==
    [][/\ call'.op \in {"withMaxLength", "withMaxValue"} =>
            LET n == call'.arg
                min == providers[call'.target].min
            IN  /\ (min.set /\ n < min.v) =>
                       call'.thrown = ConfigError(IF call'.op = "withMaxLength" /\ n < 0
                                                  THEN "length_negative"
                                                  ELSE "max_below_min")
                /\ (min.set /\ n = min.v) =>
                       /\ call'.thrown = NoErr
                       /\ providers'[call'.target].max = Bound(n)
       /\ call'.op \in {"withMinLength", "withMinValue"} =>
            LET n == call'.arg
                max == providers[call'.target].max
            IN  /\ (max.set /\ max.v < n) => call'.thrown = ConfigError("min_above_max")
                /\ (max.set /\ n = max.v) =>
                       /\ call'.thrown = NoErr
                       /\ providers'[call'.target].min = Bound(n)
       /\ call'.op = "validate" =>
            /\ call'.thrown = NoErr
            /\ ~call'.result.valid => call'.result.error.code \notin ConfigCodes]_vars

\* withMaxLength threw on an Array provider whose minimum was above it
C12_Witness ==
    /\ call.op = "withMaxLength"
    /\ call.thrown = ConfigError("max_below_min")
    /\ providers[call.target].kind = "array"
    /\ providers[call.target].min.v > call.arg

\* a path string that is empty or blank, or has an empty segment: a leading,
\* a trailing or a doubled dot
MalformedPath(path) ==
    \/ \A i \in 1..Len(path) : path[i] = " "
    \/ Head(path) = "."
    \/ path[Len(path)] = "."
    \/ \E i \in 1..(Len(path) - 1) : path[i] = "." /\ path[i + 1] = "."

PathCodes == {"path_empty", "path_empty_part"}

TrimmedSegments(path) == [i \in 1..Len(Split(path)) |-> Trim(Split(path)[i])]

WithTrimmedSegments(cs) ==
    [i \in 1..Len(cs) |-> [cs[i] EXCEPT !.path = TrimmedSegments(cs[i].fullPath)]]

\* C14 as claimed: fields are resolved along the trimmed segments of their
\* paths, so that validate gives the result it gives with every declared
\* path replaced by its segments trimmed (' a . b ' resolves as 'a.b').
C14_SegmentsTrimmed ==
    Validated =>
        call.result = validate(WithTrimmedSegments(checkers), providers, RegExps,
                               call.body, lastIndex).result

\* the provider of the one field of a SpecField schema, and the value a
\* body of SpecField has for it
FieldProvider == providers[checkers[1].providedValidation[1]]
FieldValue(body) == body.f[FieldPath]

\* a validate call is about to run on a built schema whose field is of `kind`
ValidatesField(kind, c) ==
    /\ c.op = "validate"
    /\ Len(checkers) = 1
    /\ FieldProvider.kind = kind

\* the smallest element of a non-empty set of numbers
Least(S) == CHOOSE i \in S : \A j \in S : i <= j

StringCodes == <<"string_type", "string_min", "string_max", "string_regex">>

\* the String checks a value violates, by their rank in the order type,
\* minLength, maxLength, regex; the bounds and the regex apply to the
\* trimmed string, the regex as RegExp.test answers at that moment
StringViolations(this, v, li) ==
    IF v.k # "string" THEN {1}
    ELSE LET t == Trim(v.s)
         IN  {r \in {2} : this.min.set /\ Len(t) < this.min.v}
             \cup {r \in {3} : this.max.set /\ Len(t) > this.max.v}
             \cup {r \in {4} : /\ this.regex # 0
                               /\ ~RegExpTest(RegExps[this.regex], li[this.regex], t).matched}

\* C15: a String field reports the first check its value violates in the
\* order type, minLength, maxLength, regex, and nothing else, with the
\* field's name; a value that is not a string gets the type message even
\* when a minimum length is set.
C15_StringCheckOrder ==
    [][ValidatesField("string", call') =>
           LET v == FieldValue(call'.body)
               violated == StringViolations(FieldProvider, v, lastIndex)
           IN  IF violated = {}
               THEN call'.result.valid
               ELSE /\ ~call'.result.valid
                    /\ call'.result.error.type = "Error"
                    /\ call'.result.error.code = StringCodes[Least(violated)]
                    /\ call'.result.error.name = FieldPath
                    /\ v.k # "string" =>
                           call'.result.error = Err("string_type", FieldPath, "to be a string")]_vars

\* ' ', too short once trimmed and not matching /^a/, was reported as too
\* short
C15_Witness ==
    /\ ValidatesField("string", call)
    /\ FieldProvider.min.set
    /\ FieldProvider.regex = 1
    /\ FieldValue(call.body) = Str(<<" ">>)
    /\ ~call.result.valid
    /\ call.result.error.code = "string_min"

\* the regular expression matches somewhere in s
Matches(re, s) == \E i \in 0..Len(s) : MatchAt(re, s, i)

\* the acceptance condition of a String field as claimed
StringAcceptable(this, v) ==
    /\ v.k = "string"
    /\ this.min.set => Len(Trim(v.s)) >= this.min.v
    /\ this.max.set => Len(Trim(v.s)) <= this.max.v
    /\ this.regex # 0 => Matches(RegExps[this.regex], Trim(v.s))

\* C16 as claimed: the value of a String field is accepted exactly when it
\* is a string whose trimmed form is within the length bounds that are set
\* and matches the regex that is set.
C16_StringAcceptedIff ==
    ValidatesField("string", call) =>
        (call.result.valid <=> StringAcceptable(FieldProvider, FieldValue(call.body)))

\* the number <<n, f, e>> has no fractional component
IsIntegral(v) == v[2] = 0 /\ v[3] = 0

\* the acceptance condition of an Integer field as claimed
IntegerAcceptable(this, v) ==
    /\ v.k = "number"
    /\ IsIntegral(v.n)
    /\ this.min.set => ~NumLess(v.n, this.min.v)
    /\ this.max.set => ~NumGreater(v.n, this.max.v)

\* C17 as claimed: the value of an Integer field is accepted exactly when it
\* is a number without fractional component that lies within the bounds
\* that are set, the bounds included.
C17_IntegerAcceptedIff ==
    ValidatesField("integer", call) =>
        (call.result.valid <=> IntegerAcceptable(FieldProvider, FieldValue(call.body)))

\* the element count of an array value is within the length bounds set
LengthWithin(this, v) ==
    /\ this.min.set => Len(v.e) >= this.min.v
    /\ this.max.set => Len(v.e) <= this.max.v

\* C18: a value that is not an array is rejected as such; an array whose
\* element count is outside the bounds set (the bounds themselves being
\* allowed) is rejected for its length; in both cases no element has been
\* checked; an array within the bounds is rejected only for an element; and
\* the empty array is accepted when no bound is set.
C18_ArrayKindAndLength ==
    ValidatesField("array", call) =>
        LET this == FieldProvider
            v == FieldValue(call.body)
            visited == call.ran[1].visited
        IN  /\ v.k # "array" =>
                   /\ ~call.result.valid
                   /\ call.result.error.code = "array_type"
                   /\ call.result.error.name = FieldPath
                   /\ visited = <<FieldPath>>
            /\ (v.k = "array" /\ ~LengthWithin(this, v)) =>
                   /\ ~call.result.valid
                   /\ call.result.error.code \in {"array_min", "array_max"}
                   /\ visited = <<FieldPath>>
            /\ (v.k = "array" /\ LengthWithin(this, v) /\ ~call.result.valid) =>
                   /\ call.result.error.code \notin {"array_type", "array_min", "array_max"}
                   /\ Len(visited) > 1
            /\ (v = Arr(<<>>) /\ ~this.min.set /\ ~this.max.set) => call.result.valid

\* [0, 'a'], too long for an array of integers, was rejected for its length
\* with neither element checked
C18_Witness ==
    /\ ValidatesField("array", call)
    /\ providers[FieldProvider.provider].kind = "integer"
    /\ FieldValue(call.body) = Arr(<<Num(0), Str(<<"a">>)>>)
    /\ ~call.result.valid
    /\ call.result.error.code = "array_max"
    /\ call.ran[1].visited = <<FieldPath>>

\* the display name of element i (counted from 0) of the array called name
IndexedName(name, i) == name \o <<".">> \o Digits(i)

\* what the element check of the array field throws on element i (counted
\* from 1) of elems when its turn comes, the elements before it having been
\* checked in index order starting with the lastIndex fields li
RECURSIVE ElementOutcome(_, _, _, _)
ElementOutcome(chain, elems, i, li) ==
    ValueChecker(chain, providers, RegExps, elems[i], IndexedName(FieldPath, i - 1),
                 IF i = 1 THEN li ELSE ElementOutcome(chain, elems, i - 1, li).li)

\* C19: for an array within its length bounds the elements are checked in
\* index order under the names a.0, a.1, ...; the array is accepted when no
\* element fails its check, all elements having been checked; otherwise the
\* reported error is the one of the failing element with the lowest index,
\* under that element's name, and no element after it has been checked.
C19_ElementsInIndexOrder ==
    [][(/\ ValidatesField("array", call')
        /\ FieldValue(call'.body).k = "array"
        /\ LengthWithin(FieldProvider, FieldValue(call'.body))) =>
           LET elems == FieldValue(call'.body).e
               chain == Tail(checkers[1].providedValidation)
               failing == {i \in 1..Len(elems) :
                              ElementOutcome(chain, elems, i, lastIndex).err # NoErr}
               names(n) == <<FieldPath>> \o [i \in 1..n |-> IndexedName(FieldPath, i - 1)]
           IN  IF failing = {}
               THEN /\ call'.result.valid
                    /\ call'.ran[1].visited = names(Len(elems))
               ELSE /\ ~call'.result.valid
                    /\ call'.result.error =
                           ElementOutcome(chain, elems, Least(failing), lastIndex).err
                    /\ call'.result.error.name = IndexedName(FieldPath, Least(failing) - 1)
                    /\ call'.ran[1].visited = names(Least(failing))]_vars

\* ['b', 'a'] was rejected against an array of integers for its element 0,
\* element 1, which fails as well, not having been checked
C19_Witness ==
    /\ ValidatesField("array", call)
    /\ providers[FieldProvider.provider].kind = "integer"
    /\ FieldValue(call.body) = Arr(<<Str(<<"b">>), Str(<<"a">>)>>)
    /\ ~call.result.valid
    /\ call.result.error.name = <<"a", ".", "0">>
    /\ call.ran[1].visited = <<FieldPath, <<"a", ".", "0">>>>

MatrixBody(m) == Obj([k \in {Matrix} |-> m])

\* [[0,1],[5,8,7]], [[0,1],[5,-1]] and [[0,1]]
GoodMatrix == Arr(<<Arr(<<Num(0), Num(1)>>), Arr(<<Num(5), Num(8), Num(7)>>)>>)
BadMatrix == Arr(<<Arr(<<Num(0), Num(1)>>), Arr(<<Num(5), Num(-1)>>)>>)
OneRowMatrix == Arr(<<Arr(<<Num(0), Num(1)>>)>>)

\* a row of the matrix is an array, as long as the inner provider demands,
\* of non-negative integers
RowAcceptable(inner, r) ==
    /\ r.k = "array"
    /\ inner.min.set => Len(r.e) >= inner.min.v
    /\ \A j \in 1..Len(r.e) :
           /\ r.e[j].k = "number"
           /\ IsIntegral(r.e[j].n)
           /\ ~NumLess(r.e[j].n, 0)

\* C20: the matrix schema accepts a value exactly when it is an array, of
\* any length, whose elements are arrays of non-negative integers, each as
\* long as the inner provider demands; it accepts [[0,1],[5,8,7]], rejects
\* [[0,1],[5,-1]] with the minimum-value error of matrix.1.1, and the
\* minimum length 2 of the inner provider rejects the row [5] but not the
\* one-row matrix [[0,1]].
C20_NestedArrays ==
    (Validated /\ call.body # EmptyObj) =>
        LET m == call.body.f[Matrix]
            inner == providers[2]
        IN  /\ call.result.valid <=>
                   /\ m.k = "array"
                   /\ \A i \in 1..Len(m.e) : RowAcceptable(inner, m.e[i])
            /\ m = GoodMatrix => call.result.valid
            /\ m = BadMatrix =>
                   /\ ~call.result.valid
                   /\ call.result.error = Err("integer_min", Matrix \o <<".", "1", ".", "1">>,
                                              "to be greater than or equal to")
            /\ m = OneRowMatrix => call.result.valid
            /\ (inner.min.set /\ m = Arr(<<Arr(<<Num(0), Num(1)>>), Arr(<<Num(5)>>)>>)) =>
                   /\ ~call.result.valid
                   /\ call.result.error.code = "array_min"

\* {matrix: [[0,1],[5,-1]]} was rejected by the schema whose inner arrays
\* have the minimum length 2
C20_Witness ==
    /\ Validated
    /\ providers[2].min = Bound(RowMin)
    /\ call.body = MatrixBody(BadMatrix)
    /\ ~call.result.valid
    /\ call.result.error.name = Matrix \o <<".", "1", ".", "1">>

\* name begins with the path of the field: the field itself or an element
\* of it
NamesField(name, fullPath) ==
    /\ Len(name) >= Len(fullPath)
    /\ SubSeq(name, 1, Len(fullPath)) = fullPath

\* the wording that states the violated constraint, by kind of violation
ConstraintWording(code) ==
    CASE code \in {"required_empty_body", "required_missing"} -> "is required"
      [] code = "string_type"   -> "to be a string"
      [] code \in {"integer_type", "integer_float"} -> "to be an integer"
      [] code = "array_type"    -> "to be an array"
      [] code = "string_min"    -> "to be longer than or equal to"
      [] code = "string_max"    -> "to be shorter than or equal to"
      [] code = "string_regex"  -> "to match"
      [] code = "integer_min"   -> "to be greater than or equal to"
      [] code = "integer_max"   -> "to be lower than or equal to"
      [] code = "array_min"     -> "array length to be greater than"
      [] code = "array_max"     -> "array length to be lower than"
      [] OTHER                  -> "none"

\* C21 as claimed: the error of every failed validate names the path of the
\* failing field and states the constraint that was violated.
C21_ErrorNamesFieldAndConstraint ==
    (Validated /\ ~call.result.valid) =>
        LET failed == checkers[call.ran[Len(call.ran)].checker]
        IN  /\ NamesField(call.result.error.name, failed.fullPath)
            /\ call.result.error.text = ConstraintWording(call.result.error.code)

\* C22: withMinLength and withMaxLength, on a String and on an Array
\* provider, throw the configuration error of a negative length for every
\* negative argument and leave the provider as it was; the argument 0 is
\* not rejected as negative, and is stored unless it contradicts the
\* opposite bound.
C22_NegativeLengthRejected ==
    [][call'.op \in {"withMinLength", "withMaxLength"} =>
           LET p == call'.target
               n == call'.arg
               opposite == IF call'.op = "withMinLength"
                           THEN providers[p].max ELSE providers[p].min
           IN  /\ n < 0 =>
                      /\ call'.thrown = ConfigError("length_negative")
                      /\ providers' = providers
               /\ n = 0 =>
                      /\ call'.thrown.code # "length_negative"
                      /\ (~opposite.set \/ opposite.v = 0) =>
                             /\ call'.thrown = NoErr
                             /\ IF call'.op = "withMinLength"
                                THEN providers'[p].min = Bound(0)
                                ELSE providers'[p].max = Bound(0)]_vars

\* withMinLength threw for a negative length on an Array provider that has a
\* minimum and a maximum
C22_Witness ==
    /\ call.op = "withMinLength"
    /\ call.arg < 0
    /\ call.thrown = ConfigError("length_negative")
    /\ providers[call.target].kind = "array"
    /\ providers[call.target].min.set
    /\ providers[call.target].max.set

\* C23 as claimed: canManagePermissions returns false whenever the target
\* has the ALL permission, whatever the source's permissions and the BDEs.
C23_NobodyManagesAll ==
    (call.op = "canManagePermissions" /\ Includes(call.target.permissions, ALL)) =>
        ~call.returned


\* the checkers sealed before the current step whose closure reads provider p
SealedOver(p) ==
    { i \in 1..Len(checkers) :
        \E k \in 1..Len(checkers[i].providedValidation) :
            checkers[i].providedValidation[k] = p }

\* does the sealed checker c accept body, the providers being ps
Accepts(c, ps, body) == Checker(c, ps, RegExps, body, lastIndex).err = NoErr

\* C24: a bound-setting call (withMinLength, withMaxLength, withMinValue,
\* withMaxValue, matching) made through a step object of a field that is
\* already sealed does not change what the field's checker accepts
C24_SealedFieldImmutable ==
    [][(call'.op \in SetterOps /\ providers' # providers) =>
          \A i \in SealedOver(call'.target) : \A body \in ProbeBodies :
              Accepts(checkers[i], providers', body)
                  <=> Accepts(checkers[i], providers, body)]_vars


\* C25: a String, Integer or Array provider that has both a minimum and a
\* maximum bound set has min <= max, after any sequence of bound-setting
\* calls, those that threw a configuration error included
C25_BoundsConsistent ==
    \A p \in 1..Len(providers) :
        (providers[p].min.set /\ providers[p].max.set) =>
            providers[p].min.v <= providers[p].max.v


\* the checker that sealing the open field cfg appends
SealedChecker(cfg) ==
    [fullPath |-> cfg.fullPath, path |-> cfg.path, required |-> cfg.required,
     providedValidation |-> Provide(providers, cfg.provider)]

\* the checker list after the open field, if any, was sealed
WithOpenFieldSealed ==
    IF config.open THEN Append(checkers, SealedChecker(config)) ELSE checkers

\* C26: a requires/optional call appends the checker of the previously open
\* field and then opens the new field, build() appends the checker of the
\* last open field and leaves none open, and no other call touches the
\* checker list: the list holds one checker per declared field, in
\* declaration order, and at most one field is open at any time
C26_OneCheckerPerField ==
    [][/\ (call'.op \in {"requires", "optional"} /\ call'.thrown = NoErr) =>
              /\ checkers' = WithOpenFieldSealed
              /\ config'.open /\ config'.fullPath = call'.path
              /\ config'.required = (call'.op = "requires")
              /\ config'.provider = 0
       /\ (call'.op = "build" /\ call'.thrown = NoErr) =>
              /\ checkers' = WithOpenFieldSealed
              /\ ~config'.open
       /\ call'.op \notin {"requires", "optional", "build"} =>
              /\ checkers' = checkers
              /\ config'.open = config.open
              /\ config'.fullPath = config.fullPath
       /\ Len(checkers') + (IF config'.open THEN 1 ELSE 0)
              <= Len(checkers) + (IF config.open THEN 1 ELSE 0) + 1]_vars

\* build() has sealed the second of two declared fields behind the first
C26_Witness ==
    /\ call.op = "build" /\ call.thrown = NoErr /\ built
    /\ Len(checkers) = 2 /\ ~config.open
    /\ checkers[1].providedValidation = <<1>>
    /\ checkers[2].providedValidation = <<2>>


\* C27: with every call sequence the staged interface types allow, a
\* toBeString/toBeInteger/toBeArray call finds an open field, and no field is
\* finalized without a provider (for an array, without an element provider):
\* no builder call dereferences the missing config or provider
C27_NoIllegalBuilderState ==
    call.op \in {"requires", "optional", "build", "toBeString", "toBeInteger", "toBeArray"} =>
        call.thrown.type # "TypeError"


\* C28: a requires/optional call with a malformed path raises its
\* configuration error before the open field is finalized: the checker list
\* and the open field are as they were before the call
C28_MalformedPathLeavesBuilder ==
    [][(call'.op \in {"requires", "optional"} /\ call'.thrown.code \in PathCodes) =>
          (checkers' = checkers /\ config' = config)]_vars


\* the type-mismatch error of a provider of the given kind for the value `name`
TypeMismatch(kind, name) ==
    CASE kind = "string"  -> Err("string_type", name, "to be a string")
      [] kind = "integer" -> Err("integer_type", name, "to be an integer")
      [] kind = "array"   -> Err("array_type", name, "to be an array")

\* C29: a field whose path resolves to null is not skipped, required or
\* optional: the type check of its provider runs on the value and validate
\* fails with the type-mismatch error of the field's kind
C29_NullIsNotAbsent ==
    (Validated /\ call.body # Null) =>
        \A k \in 1..Len(call.ran) :
            LET c == checkers[call.ran[k].checker]
                x == extractValue(call.body, c.path)
            IN  (~x.thrown /\ x.val = Null) =>
                    /\ k = Len(call.ran)
                    /\ call.ran[k].visited = <<c.fullPath>>
                    /\ ~call.result.valid
                    /\ call.result.error =
                           TypeMismatch(providers[c.providedValidation[1]].kind, c.fullPath)

\* validate has rejected the null value of an optional array field
C29_Witness ==
    /\ Validated /\ call.body # Null /\ Len(call.ran) = 1
    /\ LET c == checkers[call.ran[1].checker] IN
       /\ ~c.required
       /\ extractValue(call.body, c.path) = Ok(Null)
       /\ call.result = [valid |-> FALSE, error |-> Err("array_type", c.fullPath, "to be an array")]


\* the members extractValue reads on its way through `from`: one per turn of
\* its while loop from index i on, and one in its return statement
RECURSIVE ContainersWalked(_, _, _)
ContainersWalked(from, path, i) ==
    IF i < Len(path) /\ TypeOf(from) = "object"
    THEN IF GetMember(from, path[i]).thrown THEN 1
         ELSE 1 + ContainersWalked(GetMember(from, path[i]).val, path, i + 1)
    ELSE IF i = Len(path) /\ TypeOf(from) = "object" THEN 1 ELSE 0

Dots(name) == Cardinality({ i \in 1..Len(name) : name[i] = "." })

\* how many element indexes the display name appends to the field's path
Depth(name, fullPath) == Dots(name) - Dots(fullPath)

\* the value and its elements down to d levels of arrays
RECURSIVE Nodes(_, _)
RECURSIVE NodesFrom(_, _, _)
Nodes(value, d) ==
    1 + (IF value.k = "array" /\ d > 0 THEN NodesFrom(value.e, 1, d - 1) ELSE 0)
NodesFrom(elems, i, d) ==
    IF i > Len(elems) THEN 0 ELSE Nodes(elems[i], d) + NodesFrom(elems, i + 1, d)

\* C30: every loop of validate is bounded: a checker reads at most as many
\* containers as its path has segments, the element check goes at most as
\* deep as the arrays of the schema are nested, whatever the nesting of the
\* input, and checks each element of the input at most once
C30_ValidateBounded ==
    (Validated /\ call.body # Null) =>
        /\ Len(call.ran) <= Len(checkers)
        /\ \A k \in 1..Len(call.ran) :
            LET c == checkers[call.ran[k].checker]
                v == call.ran[k].visited
                x == extractValue(call.body, c.path)
                nesting == Len(c.providedValidation) - 1
            IN  /\ ContainersWalked(call.body, c.path, 1) <= Len(c.path)
                /\ \A j \in 1..Len(v) : Depth(v[j], c.fullPath) <= nesting
                /\ \A i, j \in 1..Len(v) : i # j => v[i] # v[j]
                /\ Len(v) <= (IF x.thrown \/ x.val = Undefined THEN 0
                              ELSE Nodes(x.val, nesting))

\* validate has checked a.b of {a: {b: [[[0]]]}} as an array of integers:
\* two containers read, the array and its one element checked
C30_Witness ==
    /\ Validated /\ Len(call.ran) = 1
    /\ LET c == checkers[call.ran[1].checker] IN
       /\ Len(c.path) = 2 /\ Len(c.providedValidation) = 2
       /\ extractValue(call.body, c.path) = Ok(Nested(3, Num(0)))
       /\ ContainersWalked(call.body, c.path, 1) = 2
       /\ call.ran[1].visited = <<c.fullPath, c.fullPath \o <<".", "0">>>>
       /\ ~call.result.valid

====
